---------------------------- MODULE Spec2Model ----------------------------
(***************************************************************************)
(* A model of the JOS kernel monitor, kern/monitor.c: the command table,   *)
(* the tokenizer and dispatcher (runcmd), the handlers mon_help,           *)
(* mon_kerninfo, mon_backtrace and mon_showva2pa, and the read-dispatch    *)
(* loop (monitor).                                                         *)
(*                                                                         *)
(* Characters are one-character strings, a C string is a sequence of       *)
(* them.  A 32-bit address is a record [hi, lo] of two 16-bit halves, so   *)
(* that arithmetic modulo 2^32 is exact.  Stack words are plain integers.  *)
(***************************************************************************)
EXTENDS Integers, Sequences, FiniteSets, TLC

(***************************************************************************)
(* Bounds of the model.                                                    *)
(***************************************************************************)
\* readable stack frames, at the abstract addresses 1..NFrames
NFrames == 2
\* page numbers 1..NPages have a page-table state chosen freely
NPages == 2
\* the longest tokenizer test line holds this many tokens
MaxTokens == 17
\* iterations of the showva2pa loop that are explored
MaxVaSteps == 5

(***************************************************************************)
(* Program constants.                                                      *)
(***************************************************************************)
CMDBUF_SIZE == 80
MAXARGS == 16
\* a separator set of the blank alone
BlankOnly == {" "}
WHITESPACE == {"\t", "\r", "\n", " "}
\* the terminating byte of a C string
NUL == "NUL"
\* a pointer is NULL or points at a value
NULL == <<>>
PtrTo(x) == <<x>>
Deref(p) == p[1]

\* sizeof(uintptr_t): the scale of arithmetic on a uintptr_t *
WordSize == 4
\* the literal added to va in the loop of mon_showva2pa
VaIncrement == 1024

commands ==
  << [name |-> <<"h","e","l","p">>,
      desc |-> "Display this list of commands",
      func |-> "mon_help"],
     [name |-> <<"k","e","r","n","i","n","f","o">>,
      desc |-> "Display information about the kernel",
      func |-> "mon_kerninfo"],
     [name |-> <<"b","a","c","k","t","r","a","c","e">>,
      desc |-> "Display information about the kernel",
      func |-> "mon_backtrace"],
     [name |-> <<"s","h","o","w","v","a","2","p","a">>,
      desc |-> "Display the physical pages information corresponding to the designated virtual addresses",
      func |-> "mon_showva2pa"] >>

\* struct Command allows a handler that returns -1 to force the monitor to
\* exit; none of the four registered commands does.  This table adds one.
commandsWithExit ==
  Append(commands,
         [name |-> <<"e","x","i","t">>,
          desc |-> "Leave the monitor",
          func |-> "mon_exit"])

(***************************************************************************)
(* 32-bit addresses.                                                       *)
(***************************************************************************)
Half == 65536

Addr32(h, l) == [hi |-> h, lo |-> l]

\* a + n modulo 2^32, for 0 <= n < 2^16
AddrAdd(a, n) ==
  LET s == a.lo + n
  IN  Addr32((a.hi + (s \div Half)) % Half, s % Half)

\* unsigned a <= b, a > b
AddrLeq(a, b) == a.hi < b.hi \/ (a.hi = b.hi /\ a.lo <= b.lo)
AddrGt(a, b) == ~AddrLeq(a, b)

\* PGNUM(a): the address shifted right by 12
PageNum(a) == a.hi * 16 + (a.lo \div 4096)


(***************************************************************************)
(* C strings and the library calls the monitor makes on them.              *)
(***************************************************************************)
\* the byte at 1-based position i of a buffer whose terminator follows its
\* last element
ByteAt(buf, i) == IF i > Len(buf) THEN NUL ELSE buf[i]

RECURSIVE CStrEnd(_, _)
\* the position of the first NUL at or after i
CStrEnd(buf, i) == IF ByteAt(buf, i) = NUL THEN i ELSE CStrEnd(buf, i + 1)

\* the string a char * pointing at position i denotes
CStr(buf, i) == SubSeq(buf, i, CStrEnd(buf, i) - 1)

\* a comparison of the first strlen(a) characters only
StrEqPrefix(a, b) == Len(a) <= Len(b) /\ a = SubSeq(b, 1, Len(a))

\* strcmp(a, b) == 0
StrEq(a, b) == a = b

HexDigits ==
  <<"0","1","2","3","4","5","6","7","8","9","a","b","c","d","e","f">>

IsHexDigit(c) == \E k \in 1..16 : HexDigits[k] = c

HexVal(c) == (CHOOSE k \in 1..16 : HexDigits[k] = c) - 1

RECURSIVE StrtolDigits(_, _, _)
\* val = val * 16 + dig for each leading hexadecimal digit, modulo 2^32
StrtolDigits(s, i, val) ==
  IF i <= Len(s) /\ IsHexDigit(s[i])
  THEN StrtolDigits(s, i + 1,
                    Addr32((val.hi * 16 + (val.lo \div 4096)) % Half,
                           (val.lo * 16 + HexVal(s[i])) % Half))
  ELSE val

\* (uintptr_t *) strtol(s, &ptr, 16): an optional 0x, then the digits
Strtol16(s) ==
  IF Len(s) >= 2 /\ s[1] = "0" /\ s[2] = "x"
  THEN StrtolDigits(s, 3, Addr32(0, 0))
  ELSE StrtolDigits(s, 1, Addr32(0, 0))

(***************************************************************************)
(* runcmd, first half: parse the command buffer into arguments.            *)
(***************************************************************************)
RECURSIVE Gobble(_, _)
\* while (*buf && strchr(WHITESPACE, *buf)) *buf++ = 0;
Gobble(buf, i) ==
  IF ByteAt(buf, i) # NUL /\ ByteAt(buf, i) \in WHITESPACE
  THEN Gobble([buf EXCEPT ![i] = NUL], i + 1)
  ELSE [buf |-> buf, i |-> i]

RECURSIVE ScanArg(_, _)
\* while (*buf && !strchr(WHITESPACE, *buf)) buf++;
ScanArg(buf, i) ==
  IF ByteAt(buf, i) # NUL /\ ByteAt(buf, i) \notin WHITESPACE
  THEN ScanArg(buf, i + 1)
  ELSE i

\* no test at all before argv[argc++] = buf
ArgvNeverFull(n) == FALSE

\* a test that lets a sixteenth argument in
ArgvFullOneLate(n) == n = MAXARGS

\* the test that guards argv[argc++] = buf
ArgvFull(n) == n = MAXARGS - 1

RECURSIVE ParseLoop(_)
\* the while (1) loop of runcmd.  p.argv holds the saved pointers (as
\* positions in the buffer), p.writes the indices of argv written so far.
ParseLoop(p) ==
  LET g == Gobble(p.buf, p.i)
  IN  IF ByteAt(g.buf, g.i) = NUL
      THEN [p EXCEPT !.buf = g.buf, !.i = g.i,
                     !.writes = p.writes \cup {p.argc}]
      ELSE IF ArgvFull(p.argc)
      THEN [p EXCEPT !.buf = g.buf, !.i = g.i, !.toomany = TRUE]
      ELSE ParseLoop([buf |-> g.buf,
                      i |-> ScanArg(g.buf, g.i),
                      argc |-> p.argc + 1,
                      argv |-> Append(p.argv, g.i),
                      writes |-> p.writes \cup {p.argc},
                      toomany |-> FALSE])

\* argc = 0; argv[argc] = 0; then the loop
Parse(line) ==
  ParseLoop([buf |-> line, i |-> 1, argc |-> 0, argv |-> <<>>,
             writes |-> {0}, toomany |-> FALSE])

\* the argument strings argv[0..argc-1] denote once parsing is over
ArgStrings(p) == [k \in 1..p.argc |-> CStr(p.buf, p.argv[k])]


(***************************************************************************)
(* The machine state the handlers inspect.                                 *)
(***************************************************************************)
VARIABLES
  registry,   \* the command table
  tf,         \* monitor's argument: the trap frame, or NULL
  wraps,      \* whether this build's va += 1024 wraps modulo 2^32
  mem,        \* the stack: readable frame address -> the words stored there
  stack_ebp,  \* what read_ebp() returns inside mon_backtrace
  pgdir,      \* kern_pgdir: page number -> page-table state
  pages,      \* struct PageInfo of each physical page
  state,      \* the monitor loop: "Running" or "Terminated"
  pc,         \* where control is: "read" (in readline), "bt", "va" (in a
              \* handler's loop), "check" (runcmd has returned), "exit"
              \* (monitor has left its loop), "fault" (a page fault)
  buf,        \* monitor's buf: NULL or a line once readline has returned
  argc,       \* runcmd's argc for the last line
  argv,       \* runcmd's argv[0..argc-1], as strings
  argvWrites, \* the indices of argv that runcmd wrote for the last line
  called,     \* the handlers invoked for the last line, with their arguments
  out,        \* console output since the last line was read
  lost,       \* parity of the number of records the console has dropped
  ret,        \* the value runcmd last returned
  ebp,        \* mon_backtrace's ebp
  va_low,     \* mon_showva2pa's va_low
  va,         \* mon_showva2pa's va
  va_high,    \* mon_showva2pa's va_high
  vaSteps,    \* iterations of mon_showva2pa's loop made for the last line
  queries     \* the page-table queries made for the last line

vars == <<registry, tf, wraps, mem, stack_ebp, pgdir, pages, state, pc, buf, argc, argv,
          argvWrites, called, out, lost, ret, ebp, va_low, va, va_high,
          vaSteps, queries>>

\* the console keeps this many records of one command's output; what a
\* command prints beyond it is dropped
MaxOut == NFrames + MaxVaSteps + 6

\* cprintf of one record
Emit(o, r) == IF Len(o) < MaxOut THEN Append(o, r) ELSE o

\* the parity of the records dropped, after one more cprintf
Lose(o, n) == IF Len(o) < MaxOut THEN n ELSE 1 - n

(***************************************************************************)
(* The stack.  Frame addresses are 0 (the sentinel), 1..NFrames (readable  *)
(* frames) and NFrames + 1 (an address that cannot be read).               *)
(***************************************************************************)
FrameAddrs == 1..NFrames
StackAddrs == 0..(NFrames + 1)

\* the return address and the five argument words stored in frame a
RetAddrAt(a) == 256 + 16 * a + a
ArgsAt(a) == [k \in 1..5 |-> 10 * a + k]

Mems ==
  { [a \in FrameAddrs |->
       [saved_ebp |-> p[a], eip |-> RetAddrAt(a), args |-> ArgsAt(a)]] :
    p \in [FrameAddrs -> StackAddrs] }

\* a stack whose frames are chained 1 -> 2 -> ... -> NFrames -> 0
DefaultMem ==
  [a \in FrameAddrs |->
     [saved_ebp |-> IF a = NFrames THEN 0 ELSE a + 1,
      eip |-> RetAddrAt(a), args |-> ArgsAt(a)]]

\* whether *(ebp), *(ebp + 1), ..., *(ebp + 6) can be read
Readable(m, e) == e \in DOMAIN m

\* functions are laid out every FnSize bytes
FnSize == 16

\* debuginfo_eip(addr, &info)
debuginfo_eip(addr) ==
  [eip_file |-> "kern/init.c",
   eip_line |-> addr % FnSize,
   eip_fn_name |-> "fn",
   eip_fn_namelen |-> 2,
   eip_fn_addr |-> (addr \div FnSize) * FnSize]

(***************************************************************************)
(* mon_backtrace.                                                          *)
(***************************************************************************)
\* a loop test that also stops at the frame whose saved ebp is 0
BacktraceStopsAtOutermost(e) ==
  e # 0 /\ (e \in DOMAIN mem => mem[e].saved_ebp # 0)

\* while (ebp != 0)
BacktraceContinues(e) == e # 0

\* the number printed after the '+': cprintf(": %.*s+%d\n", ...)
BacktraceOffset(eip, info) == info.eip_fn_addr

\* what one iteration prints: "ebp .. eip .. args .." and "file:line: fn+N"
BacktraceFrame(m, e) ==
  LET eip == m[e].eip
      info == debuginfo_eip(eip)
  IN  [kind |-> "frame", ebp |-> e, eip |-> eip, args |-> m[e].args,
       file |-> info.eip_file, line |-> info.eip_line,
       fn |-> info.eip_fn_name,
       plus |-> BacktraceOffset(eip, info)]

\* ebp = (uint32_t *)(*ebp)
BacktraceNextEbp(m, e) == m[e].saved_ebp

(***************************************************************************)
(* The page table, and mon_showva2pa.                                      *)
(***************************************************************************)
PTE_P == 1
PTE_W == 2
PTE_U == 4

\* (pte & bit) == bit, for a single-bit mask
HasBit(flags, bit) == (flags \div bit) % 2 = 1

ModelPages == 1..NPages
NoTable == [table |-> FALSE, ppn |-> 0, flags |-> 0]

\* physical page backing page number n when it is mapped
PpnOf(n) == 32 + n

PteStates(n) ==
  {NoTable} \cup
  { [table |-> TRUE, ppn |-> PpnOf(n), flags |-> f] :
    f \in {0, PTE_P, PTE_P + PTE_W, PTE_P + PTE_U, PTE_P + PTE_W + PTE_U} }

Pgdirs == { pd \in [ModelPages -> UNION {PteStates(n) : n \in ModelPages}] :
            \A n \in ModelPages : pd[n] \in PteStates(n) }

DefaultPgdir ==
  [n \in ModelPages |->
     IF n = 1
     THEN [table |-> TRUE, ppn |-> PpnOf(n), flags |-> PTE_P + PTE_W + PTE_U]
     ELSE NoTable]

InitPages == [n \in {PpnOf(k) : k \in ModelPages} |-> [pp_ref |-> n - 31]]

\* the page-table entry of page number n
PteOf(pd, n) == IF n \in DOMAIN pd THEN pd[n] ELSE NoTable

\* pgdir_walk(pgdir, va, create): the entry, or NULL without a page table.
\* With create = 0 nothing is allocated.
pgdir_walk(pd, a, create) ==
  LET e == PteOf(pd, PageNum(a))
  IN  IF e.table THEN PtrTo(e) ELSE NULL

\* the page that holds a page table made for page number n
TablePpn(n) == 64 + (n % 32)

\* a call of pgdir_walk(pgdir, va, create): the entry returned, and the page
\* table and page records the call leaves.  Without a page table for va
\* and with create set, a page is allocated for one (pp_ref becomes 1) and
\* entered in the directory; its entries are empty.
pgdir_walk_call(pd, pg, a, create) ==
  LET n == PageNum(a)
      fresh == [table |-> TRUE, ppn |-> 0, flags |-> 0]
  IN  IF PteOf(pd, n).table \/ create = 0
      THEN [create |-> create, entry |-> pgdir_walk(pd, a, create),
            pgdir |-> pd, pages |-> pg]
      ELSE [create |-> create, entry |-> PtrTo(fresh),
            pgdir |-> [k \in DOMAIN pd \cup {n} |->
                         IF k = n THEN fresh ELSE pd[k]],
            pages |-> [k \in DOMAIN pg \cup {TablePpn(n)} |->
                         IF k = TablePpn(n) THEN [pp_ref |-> 1] ELSE pg[k]]]

\* page_lookup(pgdir, va, &entry): the page mapped at va, or NULL
page_lookup(pd, pg, a) ==
  LET e == PteOf(pd, PageNum(a))
  IN  IF e.table /\ HasBit(e.flags, PTE_P)
      THEN PtrTo([ppn |-> e.ppn])
      ELSE NULL

\* page2pa(pp)
page2pa(pp) == Addr32(pp.ppn \div 16, (pp.ppn % 16) * 4096)

\* the stride if va were a byte pointer
VaStrideInBytes == VaIncrement

\* va += 1024 on a uintptr_t *va
VaStride == VaIncrement * WordSize

VaNext(a) == AddrAdd(a, VaStride)

\* va + 1024 words lies beyond the top of the address space
VaOverflows(a) == a.hi = Half - 1 /\ a.lo + VaStride >= Half

\* va after va += 1024.  Pointer arithmetic that passes the top of the
\* address space is undefined: a build either wraps modulo 2^32 (w) or
\* goes on as if the sum were above every address.
VaAdvance(a, w) ==
  IF VaOverflows(a) /\ ~w
  THEN [hi |-> Half, lo |-> (a.lo + VaStride) % Half]
  ELSE VaNext(a)

\* va <= va_high
VaContinues(a, high) == AddrLeq(a, high)

\* a walk that makes the page table it does not find
VaWalkCreating(pd, pg, a) == pgdir_walk_call(pd, pg, a, 1)

\* entry = pgdir_walk(kern_pgdir, (void *)va, 0)
VaWalkCall(pd, pg, a) == pgdir_walk_call(pd, pg, a, 0)

\* the queries one iteration of the for loop makes: the walk, and the
\* lookup when the walk returned an entry
VaQueries(pd, pg, a) ==
  LET w == VaWalkCall(pd, pg, a)
  IN  {[fn |-> "pgdir_walk", va |-> a, create |-> w.create]}
      \cup IF w.entry = NULL THEN {}
           ELSE {[fn |-> "page_lookup", va |-> a, create |-> 0]}

\* a report whose PTE_U column repeats the write bit
VaReportWriteTwice(pd, pg, a) ==
  LET w == VaWalkCall(pd, pg, a)
      entry == w.entry
  IN  IF entry = NULL
      THEN [kind |-> "unmapped", va |-> a]
      ELSE LET va_page == page_lookup(w.pgdir, w.pages, a)
           IN  IF va_page = NULL
               THEN [kind |-> "unmapped", va |-> a]
               ELSE [kind |-> "mapping", va |-> a,
                     pa |-> page2pa(Deref(va_page)),
                     pp_ref |-> pg[Deref(va_page).ppn].pp_ref,
                     w |-> IF HasBit(Deref(entry).flags, PTE_W) THEN 1 ELSE 0,
                     u |-> IF HasBit(Deref(entry).flags, PTE_W) THEN 1 ELSE 0]

\* the body of the for loop: the line printed for va
VaReport(pd, pg, a) ==
  LET w == VaWalkCall(pd, pg, a)
      entry == w.entry
  IN  IF entry = NULL
      THEN [kind |-> "unmapped", va |-> a]
      ELSE LET va_page == page_lookup(w.pgdir, w.pages, a)
           IN  IF va_page = NULL
               THEN [kind |-> "unmapped", va |-> a]
               ELSE [kind |-> "mapping", va |-> a,
                     pa |-> page2pa(Deref(va_page)),
                     pp_ref |-> pg[Deref(va_page).ppn].pp_ref,
                     w |-> IF HasBit(Deref(entry).flags, PTE_W) THEN 1 ELSE 0,
                     u |-> IF HasBit(Deref(entry).flags, PTE_U) THEN 1 ELSE 0]

\* the bounds without the exchange made when va_low > va_high
VaBoundsAsGiven(n, args) ==
  [low |-> Strtol16(args[2]), high |-> Strtol16(args[n])]

\* the bounds set when argc == 2 and when argc == 3 (args[1] is argv[0])
VaBounds(n, args) ==
  IF n = 2
  THEN [low |-> Strtol16(args[2]), high |-> Strtol16(args[2])]
  ELSE LET first == Strtol16(args[2])
           second == Strtol16(args[3])
       IN  IF AddrGt(first, second)
           THEN [low |-> second, high |-> first]
           ELSE [low |-> first, high |-> second]


RECURSIVE VaWalk(_, _, _, _, _, _)
\* the lines the first n iterations of the for loop print, from va = a
VaWalk(pd, pg, a, high, n, w) ==
  IF n = 0 \/ ~VaContinues(a, high) THEN <<>>
  ELSE <<VaReport(pd, pg, a)>>
       \o VaWalk(pd, pg, VaAdvance(a, w), high, n - 1, w)

(***************************************************************************)
(* The handlers, as what a call does before it returns or enters its loop: *)
(* the records printed, the value returned (when it returns at once), and  *)
(* the loop entered ("bt", "va") with its variables.                       *)
(***************************************************************************)
Addr0 == Addr32(0, 0)

Returned(o, r) ==
  [out |-> o, ret |-> r, pc |-> "check", ebp |-> 0,
   va_low |-> Addr0, va |-> Addr0, va_high |-> Addr0]

RECURSIVE HelpLinesLastFirst(_, _)
\* a help that lists the table from its last entry to its first
HelpLinesLastFirst(reg, i) ==
  IF i > Len(reg) THEN <<>>
  ELSE HelpLinesLastFirst(reg, i + 1)
       \o <<[kind |-> "help", name |-> reg[i].name, desc |-> reg[i].desc]>>

RECURSIVE HelpLines(_, _)
\* for (i = 0; i < ARRAY_SIZE(commands); i++) cprintf("%s - %s\n", ...)
HelpLines(reg, i) ==
  IF i > Len(reg) THEN <<>>
  ELSE <<[kind |-> "help", name |-> reg[i].name, desc |-> reg[i].desc]>>
       \o HelpLines(reg, i + 1)

\* a mon_help that returns -1
mon_help_exits(reg) == Returned(HelpLines(reg, 1), -1)

mon_help(reg) == Returned(HelpLines(reg, 1), 0)

mon_kerninfo ==
  Returned(<<[kind |-> "kerninfo", text |-> "Special kernel symbols:"],
             [kind |-> "kerninfo", text |-> "_start"],
             [kind |-> "kerninfo", text |-> "entry"],
             [kind |-> "kerninfo", text |-> "etext"],
             [kind |-> "kerninfo", text |-> "edata"],
             [kind |-> "kerninfo", text |-> "end"],
             [kind |-> "kerninfo", text |-> "Kernel executable memory footprint"]>>,
           0)

\* uint32_t *ebp = (uint32_t *)read_ebp(); the loop follows
mon_backtrace_entry(e) ==
  [out |-> <<>>, ret |-> 0, pc |-> "bt", ebp |-> e,
   va_low |-> Addr0, va |-> Addr0, va_high |-> Addr0]

\* a handler that does not test for a third address
mon_showva2pa_unchecked(n, args) ==
  IF n = 1
  THEN Returned(<<[kind |-> "toofew", text |-> "At least one argument."]>>, 0)
  ELSE LET b == VaBounds(n, args)
       IN  [out |-> <<>>, ret |-> 0, pc |-> "va", ebp |-> 0,
            va_low |-> b.low, va |-> b.low, va_high |-> b.high]

\* the argc tests of mon_showva2pa, and the loop's initial va
mon_showva2pa_entry(n, args) ==
  IF n = 1
  THEN Returned(<<[kind |-> "toofew", text |-> "At least one argument."]>>, 0)
  ELSE IF n >= 4
  THEN Returned(<<[kind |-> "toomany", max |-> 2]>>, 0)
  ELSE LET b == VaBounds(n, args)
       IN  [out |-> <<>>, ret |-> 0, pc |-> "va", ebp |-> 0,
            va_low |-> b.low, va |-> b.low, va_high |-> b.high]

\* a handler that asks the monitor to exit
mon_exit == Returned(<<>>, -1)

\* commands[i].func(argc, argv, tf)
Invoke(func, reg, n, args, e) ==
  CASE func = "mon_help" -> mon_help(reg)
    [] func = "mon_kerninfo" -> mon_kerninfo
    [] func = "mon_backtrace" -> mon_backtrace_entry(e)
    [] func = "mon_showva2pa" -> mon_showva2pa_entry(n, args)
    [] func = "mon_exit" -> mon_exit

(***************************************************************************)
(* runcmd, second half: look the command up and invoke it.                 *)
(***************************************************************************)
RECURSIVE LookupOrFirst(_, _, _)
\* a lookup that falls back on the first command when no name matches
LookupOrFirst(reg, s, i) ==
  IF i > Len(reg) THEN 1
  ELSE IF StrEq(s, reg[i].name) THEN i
  ELSE LookupOrFirst(reg, s, i + 1)

RECURSIVE Lookup(_, _, _)
\* the index of the first command whose name strcmp()s equal to s, or 0
Lookup(reg, s, i) ==
  IF i > Len(reg) THEN 0
  ELSE IF StrEq(s, reg[i].name) THEN i
  ELSE Lookup(reg, s, i + 1)

\* runcmd(buf, tf) up to the point where it returns or a handler's loop
\* starts; e is the frame pointer a handler would read
runcmd(reg, line, t, e) ==
  LET p == Parse(line)
      args == ArgStrings(p)
      base == [argc |-> p.argc, argv |-> args, writes |-> p.writes,
               called |-> <<>>]
  IN  IF p.toomany
      THEN base @@ Returned(<<[kind |-> "toomany", max |-> MAXARGS]>>, 0)
      ELSE IF p.argc = 0
      THEN base @@ Returned(<<>>, 0)
      ELSE LET i == Lookup(reg, args[1], 1)
           IN  IF i = 0
               THEN base @@ Returned(<<[kind |-> "unknown", name |-> args[1]]>>, 0)
               ELSE [base EXCEPT !.called =
                        <<[func |-> reg[i].func, argc |-> p.argc,
                           argv |-> args, tf |-> t]>>]
                    @@ Invoke(reg[i].func, reg, p.argc, args, e)

(***************************************************************************)
(* monitor: the loop.                                                      *)
(***************************************************************************)
\* a loop that also breaks on 0
LoopStateBreaksOnZero(r) == IF r <= 0 THEN "Terminated" ELSE "Running"

\* if (runcmd(buf, tf) < 0) break;
LoopState(r) == IF r < 0 THEN "Terminated" ELSE "Running"

\* buf before readline's result is stored in it: a pointer the loop never
\* reads
Stale == PtrTo(<<NUL>>)

(***************************************************************************)
(* The lines the console may deliver.                                      *)
(***************************************************************************)
Letters ==
  <<"a","b","c","d","e","f","g","h","i","j","k","l","m",
    "n","o","p","q","r","s","t","u","v","w","x","y","z">>

\* the k-th test token: one letter, two from the 14th on
Token(k) ==
  IF k < 14 THEN <<Letters[k]>> ELSE <<Letters[k - 13], Letters[k]>>

RECURSIVE Join(_, _)
Join(toks, sep) ==
  IF Len(toks) = 0 THEN <<>>
  ELSE IF Len(toks) = 1 THEN toks[1]
  ELSE toks[1] \o sep \o Join(Tail(toks), sep)

Separators == { <<" ">>, <<"\t", " ">> }
Paddings == { <<>>, <<"\r", "\n">> }

\* n tokens, separated and padded by whitespace
TokenLines ==
  { pad \o Join([k \in 1..n |-> Token(k)], sep) \o pad :
    n \in 0..MaxTokens, sep \in Separators, pad \in Paddings }

Name(i) == commands[i].name

\* a registered name followed by 14 and by 15 further tokens
LongCommandLines ==
  { Join(<<Name(1)>> \o [k \in 1..n |-> Token(k)], <<" ">>) :
    n \in {MAXARGS - 2, MAXARGS - 1} }

CommandLines ==
  { Name(1), Name(2), Name(3),
    <<" ">> \o Name(3) \o <<"\n">>,
    Name(1) \o <<" ">> \o Token(1),
    <<"H","e","l","p">>,
    <<"h","e","l">>,
    Name(1) \o <<"x">>,
    <<"f","r","o","b">>,
    <<"e","x","i","t">> }

AddrTokens ==
  { <<"1","0","0","0">>,
    <<"1","4","0","0">>,
    <<"0","x","2","0","0","0">>,
    <<"3","0","0","0">>,
    <<"f","f","f","f","f","0","0","0">>,
    <<"f","f","f","f","f","f","f","f">> }

ShowvaLines ==
  { Name(4), Name(4) \o <<" ">> }
  \cup { Join(<<Name(4), a>>, <<" ">>) : a \in AddrTokens }
  \cup { Join(<<Name(4), a, b>>, <<" ">>) : a \in AddrTokens, b \in AddrTokens }
  \cup { Join(<<Name(4), a, a, a>>, <<" ">>) : a \in AddrTokens }
  \cup { Join(<<Name(4)>> \o [k \in 1..4 |-> Token(k)], <<" ">>) }

Lines ==
  { l \in TokenLines \cup LongCommandLines \cup CommandLines \cup ShowvaLines :
    Len(l) < CMDBUF_SIZE }

(***************************************************************************)
(* The state machine.                                                      *)
(***************************************************************************)
\* what runcmd recorded about the line it last ran, before any line
ResetLine ==
  /\ buf' = Stale
  /\ argc' = 0
  /\ argv' = <<>>
  /\ argvWrites' = {}
  /\ called' = <<>>
  /\ out' = <<>>
  /\ lost' = 0
  /\ ret' = 0
  /\ ebp' = 0
  /\ va_low' = Addr0
  /\ va' = Addr0
  /\ va_high' = Addr0
  /\ vaSteps' = 0
  /\ queries' = {}

\* monitor() has printed its banner and is about to call readline
InitMonitor ==
  /\ pages = InitPages
  /\ state = "Running"
  /\ pc = "read"
  /\ buf = Stale
  /\ argc = 0
  /\ argv = <<>>
  /\ argvWrites = {}
  /\ called = <<>>
  /\ out = <<>>
  /\ lost = 0
  /\ ret = 0
  /\ ebp = 0
  /\ va_low = Addr0
  /\ va = Addr0
  /\ va_high = Addr0
  /\ vaSteps = 0
  /\ queries = {}

\* monitor(tf) is called with a trap frame, and with NULL at boot
TrapFrames == {NULL, PtrTo([tf_trapno |-> 3])}

\* any page table, under the default stack
InitPageTables ==
  /\ mem = DefaultMem
  /\ stack_ebp = 1
  /\ pgdir \in Pgdirs

\* any stack and any frame pointer, under the default page table
InitStacks ==
  /\ mem \in Mems
  /\ stack_ebp \in StackAddrs
  /\ pgdir = DefaultPgdir

Init ==
  /\ registry = commands
  /\ tf = NULL
  /\ wraps \in BOOLEAN
  /\ InitPageTables
  /\ InitMonitor

\* the stacks are explored in the build that wraps, as plain i386 code does
InitAnyStack ==
  /\ registry = commands
  /\ tf = NULL
  /\ wraps = TRUE
  /\ InitStacks
  /\ InitMonitor

InitWithExit ==
  /\ registry = commandsWithExit
  /\ tf \in TrapFrames
  /\ wraps \in BOOLEAN
  /\ mem = DefaultMem
  /\ stack_ebp = 1
  /\ pgdir = DefaultPgdir
  /\ InitMonitor

\* a loop that takes a NULL line for the end of input and leaves
ReadNullLeaves ==
  /\ pc = "read"
  /\ buf' = NULL
  /\ state' = "Terminated"
  /\ pc' = "exit"
  /\ UNCHANGED <<registry, tf, wraps, mem, stack_ebp, pgdir, pages, argc, argv,
                 argvWrites, called, out, lost, ret, ebp, va_low, va,
                 va_high, vaSteps, queries>>

\* buf = readline("K> ") returns NULL: if (buf != NULL) skips runcmd and
\* the loop calls readline again
ReadNull ==
  /\ pc = "read"
  /\ buf' = NULL
  /\ UNCHANGED <<registry, tf, wraps, mem, stack_ebp, pgdir, pages, state, pc, argc,
                 argv, argvWrites, called, out, lost, ret, ebp, va_low, va,
                 va_high, vaSteps, queries>>

\* buf = readline("K> ") returns a line: runcmd(buf, tf) runs until it
\* returns or a handler's loop starts
ReadLine ==
  /\ pc = "read"
  /\ \E line \in Lines :
       \E r \in {runcmd(registry, line, tf, stack_ebp)} :
         /\ buf' = PtrTo(line)
         /\ argc' = r.argc
         /\ argv' = r.argv
         /\ argvWrites' = r.writes
         /\ called' = r.called
         /\ out' = r.out
         /\ lost' = 0
         /\ ret' = r.ret
         /\ ebp' = r.ebp
         /\ va_low' = r.va_low
         /\ va' = r.va
         /\ va_high' = r.va_high
         /\ pc' = r.pc
  /\ vaSteps' = 0
  /\ queries' = {}
  /\ UNCHANGED <<registry, tf, wraps, mem, stack_ebp, pgdir, pages, state>>

\* one iteration of mon_backtrace's loop.  Reading a frame that cannot be
\* read is a page fault in the kernel.
BacktraceStep ==
  /\ pc = "bt"
  /\ BacktraceContinues(ebp)
  /\ IF Readable(mem, ebp)
     THEN /\ out' = Emit(out, BacktraceFrame(mem, ebp))
          /\ lost' = Lose(out, lost)
          /\ ebp' = BacktraceNextEbp(mem, ebp)
          /\ pc' = pc
     ELSE /\ pc' = "fault"
          /\ UNCHANGED <<out, lost, ebp>>
  /\ UNCHANGED <<registry, tf, wraps, mem, stack_ebp, pgdir, pages, state, buf, argc,
                 argv, argvWrites, called, ret, va_low, va, va_high,
                 vaSteps, queries>>

\* the loop of mon_backtrace ends: return 0
BacktraceReturn ==
  /\ pc = "bt"
  /\ ~BacktraceContinues(ebp)
  /\ ret' = 0
  /\ pc' = "check"
  /\ UNCHANGED <<registry, tf, wraps, mem, stack_ebp, pgdir, pages, state, buf, argc,
                 argv, argvWrites, called, out, lost, ebp, va_low, va,
                 va_high, vaSteps, queries>>

\* one iteration of mon_showva2pa's loop
ShowvaStep ==
  /\ pc = "va"
  /\ VaContinues(va, va_high)
  /\ vaSteps < MaxVaSteps
  /\ out' = Emit(out, VaReport(pgdir, pages, va))
  /\ lost' = Lose(out, lost)
  /\ va' = VaAdvance(va, wraps)
  /\ vaSteps' = vaSteps + 1
  /\ queries' = queries \cup VaQueries(pgdir, pages, va)
  /\ pgdir' = VaWalkCall(pgdir, pages, va).pgdir
  /\ pages' = VaWalkCall(pgdir, pages, va).pages
  /\ UNCHANGED <<registry, tf, wraps, mem, stack_ebp, state, pc, buf, argc, argv,
                 argvWrites, called, ret, ebp, va_low, va_high>>

\* the loop of mon_showva2pa ends: return 0
ShowvaReturn ==
  /\ pc = "va"
  /\ ~VaContinues(va, va_high)
  /\ ret' = 0
  /\ pc' = "check"
  /\ UNCHANGED <<registry, tf, wraps, mem, stack_ebp, pgdir, pages, state, buf, argc,
                 argv, argvWrites, called, out, lost, ebp, va_low, va,
                 va_high, vaSteps, queries>>

\* runcmd has returned ret: if (runcmd(buf, tf) < 0) break; otherwise the
\* loop calls readline again
LoopCheck ==
  /\ pc = "check"
  /\ state' = LoopState(ret)
  /\ IF LoopState(ret) = "Terminated"
     THEN /\ pc' = "exit"
          /\ UNCHANGED <<buf, argc, argv, argvWrites, called, out, lost,
                         ret, ebp, va_low, va, va_high, vaSteps, queries>>
     ELSE /\ pc' = "read"
          /\ ResetLine
  /\ UNCHANGED <<registry, tf, wraps, mem, stack_ebp, pgdir, pages>>

Next ==
  \/ ReadNull
  \/ ReadLine
  \/ BacktraceStep
  \/ BacktraceReturn
  \/ ShowvaStep
  \/ ShowvaReturn
  \/ LoopCheck

Spec == Init /\ [][Next]_vars

\* the same monitor over the table that also holds the exit command
SpecWithExit == InitWithExit /\ [][Next]_vars

\* the monitor entered on any stack
StackSpec == InitAnyStack /\ [][Next]_vars

\* the processor keeps executing a handler's loop while it can
Fairness ==
  /\ WF_vars(BacktraceStep)
  /\ WF_vars(BacktraceReturn)
  /\ WF_vars(ShowvaStep)
  /\ WF_vars(ShowvaReturn)
  /\ WF_vars(LoopCheck)

\* the monitor entered on any stack, its loops running on
FairSpec == InitAnyStack /\ [][Next]_vars /\ Fairness


(***************************************************************************)
(* Properties of mon_backtrace.                                            *)
(***************************************************************************)
\* the handler invoked for the last line, "" when none was
CalledFunc == IF Len(called) = 0 THEN "" ELSE called[1].func

RECURSIVE EndsInZero(_, _, _)
\* following saved frame pointers from e reaches 0 through readable frames
EndsInZero(m, e, fuel) ==
  IF e = 0 THEN TRUE
  ELSE IF fuel = 0 \/ e \notin DOMAIN m THEN FALSE
  ELSE EndsInZero(m, m[e].saved_ebp, fuel - 1)

RECURSIVE ChainFrom(_, _, _)
\* the frame pointers of the chain that starts at e
ChainFrom(m, e, fuel) ==
  IF e = 0 \/ fuel = 0 \/ e \notin DOMAIN m THEN <<>>
  ELSE <<e>> \o ChainFrom(m, m[e].saved_ebp, fuel - 1)

\* the chain mon_backtrace is given ends in the zero sentinel
ChainEndsInZero == EndsInZero(mem, stack_ebp, NFrames)

\* the frames of that chain, most recent first
ChainFrames ==
  LET c == ChainFrom(mem, stack_ebp, NFrames)
  IN  [k \in 1..Len(c) |->
         [ebp |-> c[k], eip |-> mem[c[k]].eip, args |-> mem[c[k]].args]]

\* the frames printed so far
PrintedFrames ==
  [k \in 1..Len(out) |->
     [ebp |-> out[k].ebp, eip |-> out[k].eip, args |-> out[k].args]]

BacktraceReturned == pc = "check" /\ CalledFunc = "mon_backtrace"

\* C1: for a frame-pointer chain of depth D that ends in a zero saved frame
\* pointer, mon_backtrace prints exactly the D frames of the chain, the most
\* recent first, and then returns.
C1_BacktraceWalksChain ==
  /\ []((BacktraceReturned /\ ChainEndsInZero) => PrintedFrames = ChainFrames)
  /\ ((pc = "bt" /\ ChainEndsInZero) ~> BacktraceReturned)

\* a backtrace of a chain of full depth has returned
C1_Witness ==
  /\ BacktraceReturned
  /\ ChainEndsInZero
  /\ Len(ChainFrames) = NFrames
  /\ Len(out) = NFrames

\* C2: for every frame-pointer chain, cyclic ones included, the walk of
\* mon_backtrace stops after a bounded number of frames.
C2_BacktraceStops == (pc = "bt") ~> (pc # "bt")

\* C4: the number printed after the function name of a frame is the return
\* address minus the function's start address.
C4_OffsetIsEipMinusFnAddr ==
  CalledFunc = "mon_backtrace" =>
    \A k \in 1..Len(out) :
      out[k].plus = out[k].eip - debuginfo_eip(out[k].eip).eip_fn_addr

\* C5: mon_backtrace makes no faulting read, whatever the frame-pointer
\* chain.
C5_BacktraceNeverFaults == pc # "fault"

(***************************************************************************)
(* Properties of mon_showva2pa.                                            *)
(***************************************************************************)
ShowvaWalking ==
  /\ CalledFunc = "mon_showva2pa"
  /\ argc \in {2, 3}
  /\ pc \in {"va", "check"}

\* the smaller and the larger of the addresses given
GivenLow ==
  LET a == Strtol16(argv[2])
      b == Strtol16(argv[argc])
  IN  IF AddrLeq(a, b) THEN a ELSE b

GivenHigh ==
  LET a == Strtol16(argv[2])
      b == Strtol16(argv[argc])
  IN  IF AddrLeq(a, b) THEN b ELSE a

\* the walk reports low, low + stride, low + 2 * stride, ... (modulo 2^32)
\* in this order, each of them <= high, and returns at the first that is
\* not (or, in a build that does not wrap, at the top of the address space)
WalksInStridesOf(stride) ==
  ShowvaWalking =>
    LET low == GivenLow
        high == GivenHigh
    IN  /\ Len(out) = vaSteps
        /\ \A k \in 1..Len(out) :
             /\ out[k].va = AddrAdd(low, (k - 1) * stride)
             /\ AddrLeq(out[k].va, high)
        /\ pc = "check" =>
             \/ AddrGt(AddrAdd(low, Len(out) * stride), high)
             \/ ~wraps /\ out[Len(out)].va.hi = Half - 1
                       /\ out[Len(out)].va.lo + stride >= Half

\* C3 as stated: the walk visits the range in strides of 1024 bytes.
C3_StrideIs1024Bytes == WalksInStridesOf(1024)

\* C3 as amended: the walk visits the range in strides of 4096 bytes (1024
\* words of four bytes).
C3_StrideIs4096Bytes == WalksInStridesOf(4096)

\* the walk of 0x1000..0x3000 has returned
C3_Witness ==
  /\ ShowvaWalking
  /\ pc = "check"
  /\ argc = 3
  /\ GivenLow = Addr32(0, 4096)
  /\ Len(out) = 3


\* C7: showva2pa A B and showva2pa B A inspect the same range, from the
\* smaller to the larger address, and print the same lines.
C7_OrderIndependent ==
  (ShowvaWalking /\ argc = 3) =>
    LET swapped == VaBounds(3, <<argv[1], argv[3], argv[2]>>)
    IN  /\ va_low = swapped.low
        /\ va_high = swapped.high
        /\ va_low = GivenLow
        /\ va_high = GivenHigh
        /\ out = VaWalk(pgdir, pages, swapped.low, swapped.high, vaSteps,
                        wraps)
        /\ pc = "check" =>
             Len(VaWalk(pgdir, pages, swapped.low, swapped.high,
                        vaSteps + 1, wraps)) = vaSteps

\* a walk whose addresses were given larger first has returned
C7_Witness ==
  /\ ShowvaWalking
  /\ argc = 3
  /\ pc = "check"
  /\ AddrGt(Strtol16(argv[2]), Strtol16(argv[3]))
  /\ Len(out) >= 2

(***************************************************************************)
(* Properties of runcmd and of the loop of monitor.                        *)
(***************************************************************************)
\* runcmd has been given a line since readline was last called
LineRun == pc # "read"

TheLine == Deref(buf)

\* the positions where a maximal run of non-whitespace characters starts
RunStarts(l) ==
  { i \in 1..Len(l) :
      l[i] \notin WHITESPACE /\ (i = 1 \/ l[i - 1] \in WHITESPACE) }

\* the position where the run that starts at i ends
RunEnd(l, i) ==
  CHOOSE j \in i..Len(l) :
    /\ \A k \in i..j : l[k] \notin WHITESPACE
    /\ j = Len(l) \/ l[j + 1] \in WHITESPACE

\* the maximal runs of non-whitespace characters of l, left to right
Runs(l) ==
  LET starts == RunStarts(l)
      kth(k) == CHOOSE i \in starts :
                  Cardinality({j \in starts : j < i}) = k - 1
  IN  [k \in 1..Cardinality(starts) |-> SubSeq(l, kth(k), RunEnd(l, kth(k)))]

\* C6: a line of N maximal runs of non-whitespace characters yields, for
\* N <= 15, exactly those N runs as arguments, in order; for N >= 16 the
\* "Too many arguments" message, no handler, and a loop that continues.
C6_Tokenize ==
  LineRun =>
    LET runs == Runs(TheLine)
    IN  IF Len(runs) <= 15
        THEN /\ argc = Len(runs)
             /\ argv = runs
             /\ \A k \in 1..argc :
                  /\ Len(argv[k]) > 0
                  /\ \A i \in 1..Len(argv[k]) : argv[k][i] \notin WHITESPACE
        ELSE /\ out = <<[kind |-> "toomany", max |-> MAXARGS]>>
             /\ called = <<>>
             /\ pc = "check"
             /\ ret >= 0
             /\ state = "Running"

\* a line of at least 16 runs has been refused
C6_Witness ==
  /\ LineRun
  /\ Len(Runs(TheLine)) >= 16
  /\ Len(out) = 1
  /\ out[1].kind = "toomany"

\* C8: the loop goes from Running to Terminated exactly when the handler
\* dispatched returned a negative value; once Terminated nothing is read or
\* dispatched, and nothing else leaves the loop.
C8_TerminatedIffNegative ==
  [][ /\ (state = "Running" /\ state' = "Terminated")
           <=> (pc = "check" /\ ret < 0)
      /\ (pc' = "exit") <=> (state' = "Terminated")
      /\ (state = "Terminated") => UNCHANGED vars ]_vars

\* the exit command has ended the loop
C8_Witness ==
  /\ state = "Terminated"
  /\ pc = "exit"
  /\ CalledFunc = "mon_exit"
  /\ ret < 0

ErrorKinds == {"toomany", "toofew", "unknown", "unmapped"}

\* C9: with the four registered commands the loop never becomes Terminated:
\* every outcome returns a non-negative value and the loop stays Running.
C9_AlwaysRunning ==
  /\ state = "Running"
  /\ pc # "exit"
  /\ ret >= 0

\* a command that reported an error has returned
C9_Witness ==
  /\ pc = "check"
  /\ state = "Running"
  /\ Len(out) > 0
  /\ out[Len(out)].kind \in ErrorKinds

\* C10: when readline returns NULL nothing is parsed, dispatched or printed,
\* the loop stays Running and calls readline again.
C10_NullLineIgnored ==
  [][ (pc = "read" /\ buf' = NULL) =>
        /\ pc' = "read"
        /\ state' = "Running"
        /\ UNCHANGED <<argc, argv, argvWrites, called, out, lost, ret>> ]_vars

\* readline has returned NULL and the loop is in readline again
C10_Witness ==
  /\ buf = NULL
  /\ pc = "read"
  /\ state = "Running"


(***************************************************************************)
(* Properties of the dispatcher.                                           *)
(***************************************************************************)
\* the line was parsed into at least one argument
Tokenized == LineRun /\ Len(Runs(TheLine)) \in 1..(MAXARGS - 1)

\* the registered commands whose name is exactly s
Registered(s) == { i \in 1..Len(registry) : registry[i].name = s }

\* what each handler returns
HandlerResult(func) == IF func = "mon_exit" THEN -1 ELSE 0

\* C11: for a non-empty argument list a handler is invoked exactly when
\* argv[0] is exactly a registered name; it is then that command's handler,
\* invoked once with the whole argument list and the trap frame, and runcmd
\* returns what the handler returned.
C11_DispatchExactMatch ==
  Tokenized =>
    /\ (Len(called) > 0) <=> (Registered(argv[1]) # {})
    /\ Len(called) <= 1
    /\ Len(called) = 1 =>
         /\ \E i \in Registered(argv[1]) : called[1].func = registry[i].func
         /\ called[1].argc = Len(Runs(TheLine))
         /\ called[1].argv = Runs(TheLine)
         /\ called[1].tf = tf
         /\ pc \in {"check", "exit"} => ret = HandlerResult(called[1].func)

\* a registered command given an argument has returned a negative value to
\* a monitor entered with a trap frame
C11_Witness ==
  /\ Tokenized
  /\ pc = "check"
  /\ Len(called) = 1
  /\ called[1].argc = 1
  /\ called[1].func = "mon_exit"
  /\ tf # NULL
  /\ ret = -1

\* the line's first token is not the name of a registered command
UnknownCommand == Tokenized /\ Registered(Runs(TheLine)[1]) = {}

\* C12: a line whose first token is not a registered name prints
\* "Unknown command '<token>'" and nothing else, invokes no handler,
\* returns 0, and the loop reads the next line in state Running.
C12_UnknownCommand ==
  [][UnknownCommand =>
       /\ out = <<[kind |-> "unknown", name |-> Runs(TheLine)[1]]>>
       /\ called = <<>>
       /\ ret = 0
       /\ state' = "Running"
       /\ pc' = "read"]_vars

\* "frob" was dispatched and reported as unknown
C12_Witness ==
  /\ UnknownCommand
  /\ Runs(TheLine)[1] = <<"f", "r", "o", "b">>
  /\ pc = "check"
  /\ Len(out) = 1
  /\ out[1].kind = "unknown"

\* the characters of the line, up to its terminator
LineChars == { TheLine[k] : k \in 1..(CStrEnd(TheLine, 1) - 1) }

\* the line is empty or holds tabs, returns, newlines and blanks only
BlankLine == LineRun /\ LineChars \subseteq {"\t", "\r", "\n", " "}

\* C14: an empty line and a line of whitespace only give argc = 0; no
\* handler is invoked, nothing is printed, runcmd returns 0 and the loop
\* goes on.
C14_BlankLine ==
  BlankLine =>
    /\ argc = 0
    /\ called = <<>>
    /\ out = <<>>
    /\ ret = 0
    /\ pc = "check"
    /\ state = "Running"

\* a line of whitespace only was run
C14_Witness ==
  /\ BlankLine
  /\ LineChars # {}
  /\ pc = "check"
  /\ argc = 0

(***************************************************************************)
(* Properties of mon_showva2pa's argument tests and of its queries.        *)
(***************************************************************************)
\* the number of address tokens of a line that invoked showva2pa
AddressTokens == Len(Runs(TheLine)) - 1

ShowvaInvoked == LineRun /\ CalledFunc = "mon_showva2pa"

\* C13: showva2pa given no address, or three or more, prints the one
\* diagnostic for that case (at least one argument is needed; too many
\* arguments, max 2), makes no pgdir_walk and no page_lookup call, and
\* returns 0.
C13_ShowvaArgCount ==
  ShowvaInvoked =>
    LET n == AddressTokens
    IN  (n = 0 \/ n >= 3) =>
          /\ Len(out) = 1
          /\ n = 0 => out[1].kind = "toofew"
          /\ n >= 3 => out[1] = [kind |-> "toomany", max |-> 2]
          /\ queries = {}
          /\ vaSteps = 0
          /\ pc = "check"
          /\ ret = 0

\* showva2pa was given four addresses
C13_Witness ==
  /\ ShowvaInvoked
  /\ AddressTokens = 4
  /\ pc = "check"
  /\ Len(out) = 1

\* C15: showva2pa changes no page-table entry and no page record, and
\* every pgdir_walk call it makes has create = 0.
C15_ShowvaObserves ==
  [][ShowvaInvoked =>
       /\ pgdir' = pgdir
       /\ pages' = pages
       /\ \A q \in queries' : q.create = 0]_vars

\* the walk has queried an address without a page table and one with a
\* page table, and has returned
C15_Witness ==
  /\ ShowvaInvoked
  /\ pc = "check"
  /\ \E q \in queries : q.fn = "pgdir_walk" /\ ~PteOf(pgdir, PageNum(q.va)).table
  /\ \E q \in queries : q.fn = "page_lookup"

(***************************************************************************)
(* Properties of mon_help.                                                 *)
(***************************************************************************)
\* the registered names, in the order of the table
RegisteredNames ==
  << <<"h","e","l","p">>,
     <<"k","e","r","n","i","n","f","o">>,
     <<"b","a","c","k","t","r","a","c","e">>,
     <<"s","h","o","w","v","a","2","p","a">> >>

\* C16: help prints one line for each registered command, in the order of
\* the table (help, kerninfo, backtrace, showva2pa), made of that command's
\* name and description, and returns 0.
C16_HelpListsCommands ==
  (LineRun /\ CalledFunc = "mon_help") =>
    /\ Len(out) = Len(registry)
    /\ [k \in 1..Len(out) |-> out[k].name] = RegisteredNames
    /\ \A k \in 1..Len(out) :
         /\ out[k].kind = "help"
         /\ out[k].name = registry[k].name
         /\ out[k].desc = registry[k].desc
    /\ ret = 0
    /\ pc = "check"

\* help has run and printed its four lines
C16_Witness ==
  /\ LineRun
  /\ CalledFunc = "mon_help"
  /\ TheLine = <<"h","e","l","p">>
  /\ pc = "check"
  /\ Len(out) = 4

(***************************************************************************)
(* Properties of the lines mon_showva2pa reports.                          *)
(***************************************************************************)
\* the page-table entry of address a: its flags, and the physical page
\* number it holds; present is FALSE without a page table and without the
\* present bit
EntryAt(a) ==
  LET n == a.hi * 16 + (a.lo \div 4096)
  IN  IF n \in DOMAIN pgdir /\ pgdir[n].table /\ pgdir[n].flags % 2 = 1
      THEN [present |-> TRUE, ppn |-> pgdir[n].ppn,
            write |-> (pgdir[n].flags \div 2) % 2 = 1,
            user |-> (pgdir[n].flags \div 4) % 2 = 1]
      ELSE [present |-> FALSE, ppn |-> 0, write |-> FALSE, user |-> FALSE]

\* the line that is to be reported for address a
ExpectedReport(a) ==
  LET e == EntryAt(a)
  IN  IF ~e.present
      THEN [kind |-> "unmapped", va |-> a]
      ELSE [kind |-> "mapping", va |-> a,
            pa |-> [hi |-> e.ppn \div 16, lo |-> (e.ppn % 16) * 4096],
            pp_ref |-> pages[e.ppn].pp_ref,
            w |-> IF e.write THEN 1 ELSE 0,
            u |-> IF e.user THEN 1 ELSE 0]

\* C17: each address the walk visits gets exactly one line: the absence
\* message when there is no entry or no page behind the entry, otherwise
\* the address, the page's physical address, its pp_ref, and 1 or 0 for
\* the entry's PTE_W and PTE_U bits.  The walk goes on after an absent
\* address: it returns only with va beyond va_high.
C17_OneLinePerAddress ==
  ShowvaWalking =>
    /\ Len(out) = vaSteps
    /\ { q.va : q \in queries } = { out[k].va : k \in 1..Len(out) }
    /\ \A k \in 1..Len(out) : out[k] = ExpectedReport(out[k].va)
    /\ pc = "check" => ~AddrLeq(va, va_high)

\* the walk has reported an absent address, then a mapped one, and returned
C17_Witness ==
  /\ ShowvaWalking
  /\ pc = "check"
  /\ Len(out) >= 2
  /\ out[1].kind = "unmapped"
  /\ out[2].kind = "mapping"
  /\ out[2].w = 1
  /\ out[2].u = 0

(***************************************************************************)
(* Properties of the extent of mon_showva2pa's walk.                       *)
(***************************************************************************)
\* the addresses queried for the last line
QueriedAddresses == { q.va : q \in queries }

\* C18: showva2pa with one address token A queries A and no other address,
\* prints one line, and returns.
C18_OneAddress ==
  (ShowvaInvoked /\ AddressTokens = 1) =>
    LET A == Strtol16(Runs(TheLine)[2])
    IN  /\ vaSteps <= 1
        /\ Len(out) <= 1
        /\ QueriedAddresses \subseteq {A}
        /\ pc = "check" => Len(out) = 1 /\ QueriedAddresses = {A}

\* the number of whole strides of 4096 bytes from low up to high, low <= high
StridesBetween(low, high) ==
  (high.hi * 16 + (high.lo \div 4096)) - (low.hi * 16 + (low.lo \div 4096))
  - (IF high.lo % 4096 < low.lo % 4096 THEN 1 ELSE 0)

\* C19: the walk from low to high ends: it visits the addresses
\* low, low + 4096, ... that are <= high, at most
\* (high - low) / 4096 + 1 of them, and returns.  (A visit beyond that
\* number is of an address the cursor reached by wrapping; from there the
\* loop repeats the same addresses and never ends.)
C19_WalkEnds ==
  ShowvaWalking => vaSteps <= StridesBetween(va_low, va_high) + 1

(***************************************************************************)
(* Properties of the argument array.                                       *)
(***************************************************************************)
\* the indices of char *argv[MAXARGS]
ArgvSlots == 0..15

\* C20: for every line, argc stays within 0..15 and every index of argv
\* that runcmd writes, the terminating argv[argc] = 0 included, is within
\* 0..15, the sixteen slots of the array.
C20_ArgvInBounds ==
  /\ argc \in ArgvSlots
  /\ argvWrites \subseteq ArgvSlots

\* a line of fifteen arguments was parsed: argv[0..14] hold them and
\* argv[15] the terminating null
C20_Witness ==
  /\ LineRun
  /\ Len(Runs(TheLine)) = 15
  /\ argc = 15
  /\ argvWrites = 0..15

=============================================================================
